---- MODULE Spec2Model ----
(***************************************************************************)
(* SoccerGame: players, goalies and one referee synchronising through a    *)
(* shared memory region and SVIPC semaphores.                              *)
(*   semSharedMemPlayer.c   arrive, playerConstituteTeam, waitReferee,     *)
(*                          playUntilEnd                                   *)
(*   semSharedMemGoalie.c   arrive, goalieConstituteTeam, waitReferee,     *)
(*                          playUntilEnd                                   *)
(*   semSharedMemReferee.c  arrive, waitForTeams, startGame, play, endGame *)
(* Every semDown / semUp is a step of its own, except that the body of a   *)
(* critical section (the writes to the shared region and saveState) is     *)
(* one step together with the semUp of the mutex that ends it: nothing     *)
(* else can touch the region while the mutex is held.                      *)
(***************************************************************************)
EXTENDS Integers, Sequences, FiniteSets, TLC

(* Largest populations explored: players, goalies, and both together. *)
MaxPlayers == 3
MaxGoalies == 3
MaxActors == 4

(* probConst.h: NUMTEAMS is not used by the three source files, which     *)
(* compare teamId with the literal 3.                                      *)
NUM_TEAMS == 2

VARIABLES
    cfg,                 \* the population constants of the run (probConst.h)
    playerStat,          \* sh->fSt.st.playerStat[]
    goalieStat,          \* sh->fSt.st.goalieStat[]
    refereeStat,         \* sh->fSt.st.refereeStat
    playersFree,         \* sh->fSt.playersFree
    goaliesFree,         \* sh->fSt.goaliesFree
    teamId,              \* sh->fSt.teamId (the spec's nextTeamId)
    mutex,               \* semaphore sh->mutex
    playersWaitReferee,  \* semaphore sh->playersWaitReferee
    playersWaitEnd,      \* semaphore sh->playersWaitEnd
    pc,                  \* position of every player and goalie process
    team,                \* main's local `team` of every player and goalie
    refPc,               \* position of the referee process
    log,                 \* the records saveState appended to the log file, per writer
    lastRec,             \* the snapshot that the last record of the log file shows
    launch               \* a player or goalie process started by hand: argc, argv[1], n

vars == <<cfg, playerStat, goalieStat, refereeStat, playersFree, goaliesFree,
          teamId, mutex, playersWaitReferee, playersWaitEnd, pc, team, refPc, log,
          lastRec, launch>>

shared == <<playerStat, goalieStat, refereeStat, playersFree, goaliesFree, teamId>>
sems == <<mutex, playersWaitReferee, playersWaitEnd>>

NUMPLAYERS == cfg.np
NUMGOALIES == cfg.ng
NUMTEAMPLAYERS == cfg.ppt
NUMTEAMGOALIES == cfg.gpt

PlayerIds == 0 .. (NUMPLAYERS - 1)
GoalieIds == 0 .. (NUMGOALIES - 1)
Players == {<<"PL", i>> : i \in PlayerIds}
Goalies == {<<"GL", i>> : i \in GoalieIds}
Actors == Players \cup Goalies
Referee == <<"RF", 0>>

(* The configurations a run may have. *)
Configs ==
    {c \in [np : 1 .. MaxPlayers, ng : 1 .. MaxGoalies, ppt : {1, 2}, gpt : {1}] :
        c.np + c.ng <= MaxActors}

Feasible == NUMPLAYERS >= 2 * NUMTEAMPLAYERS /\ NUMGOALIES >= 2 * NUMTEAMGOALIES

----------------------------------------------------------------------------
(* Shared region accessors *)

StatOf(a) == IF a[1] = "PL" THEN playerStat[a[2]] ELSE goalieStat[a[2]]

(* sh->fSt.st.playerStat[id] = s / sh->fSt.st.goalieStat[id] = s *)
SetStatInPlayerArray(a, s) ==
    /\ playerStat' = [playerStat EXCEPT ![a[2]] = s]
    /\ goalieStat' = goalieStat

SetStat(a, s) ==
    /\ playerStat' = IF a[1] = "PL" THEN [playerStat EXCEPT ![a[2]] = s] ELSE playerStat
    /\ goalieStat' = IF a[1] = "GL" THEN [goalieStat EXCEPT ![a[2]] = s] ELSE goalieStat

(* saveState (nFic, &sh->fSt): one more record in the log file.  The file  *)
(* is kept per writer: log[w] is the sequence of states that w's records   *)
(* show w to have published, in the order w appended them.  Records of     *)
(* different writers are ordered by the steps that append them: a record   *)
(* precedes another one when it is in the log at the step that appends the *)
(* other.  A record is the snapshot of the region at the call.             *)
saveStateBeforeWrite(who, s) ==
    /\ log' = [log EXCEPT ![who] = Append(@, s)]
    /\ lastRec' = shared

saveState(who, s) ==
    /\ log' = [log EXCEPT ![who] = Append(@, s)]
    /\ lastRec' = shared'

(* semDown can proceed when the semaphore's value is positive. *)
CanDown(sem) == sem > 0

InCS(a) == pc[a] \in {"arrive_cs", "ct_cs", "wr_cs", "pe_cs"}
RefInCS == refPc \in {"arrive_cs", "wft_cs", "sg_cs", "play_cs", "eg_cs"}

----------------------------------------------------------------------------
(* Initial state: the region and the semaphore set as created before any   *)
(* process starts.                                                         *)
InitRegion(c) ==
    /\ cfg = c
    /\ playerStat = [i \in 0 .. (c.np - 1) |-> "ARRIVING"]
    /\ goalieStat = [i \in 0 .. (c.ng - 1) |-> "ARRIVING"]
    /\ refereeStat = "ARRIVING_R"
    /\ playersFree = c.np
    /\ goaliesFree = c.ng
    /\ teamId = 1
    /\ mutex = 1
    /\ playersWaitReferee = 0
    /\ playersWaitEnd = 0
    /\ pc = [a \in ({<<"PL", i>> : i \in 0 .. (c.np - 1)}
                    \cup {<<"GL", i>> : i \in 0 .. (c.ng - 1)}) |-> "arrive"]
    /\ team = [a \in ({<<"PL", i>> : i \in 0 .. (c.np - 1)}
                      \cup {<<"GL", i>> : i \in 0 .. (c.ng - 1)}) |-> 0]
    /\ refPc = "arrive"
    /\ log = [w \in ({<<"PL", i>> : i \in 0 .. (c.np - 1)}
                     \cup {<<"GL", i>> : i \in 0 .. (c.ng - 1)}
                     \cup {<<"RF", 0>>}) |-> <<>>]
    /\ lastRec = <<>>

(* No process is started by hand: the harness starts every player and      *)
(* goalie with its own identity.                                           *)
NotLaunched ==
    [role |-> "none", argc |-> 0, arg |-> [numeric |-> FALSE, value |-> 0],
     st |-> "none", n |-> 0]

InitFor(c) == InitRegion(c) /\ launch = NotLaunched

Init == \E c \in Configs : InitFor(c)

----------------------------------------------------------------------------
(* Player / goalie operations.  The two source files differ only in the    *)
(* slot array they write.                                                  *)

(* semDown (semgid, sh->mutex) at the head of an operation *)
EnterCSWithoutDown(a, from, to) ==
    /\ pc[a] = from
    /\ mutex' = 0
    /\ pc' = [pc EXCEPT ![a] = to]
    /\ UNCHANGED <<cfg, launch, shared, playersWaitReferee, playersWaitEnd, team, refPc, log, lastRec>>

EnterCS(a, from, to) ==
    /\ pc[a] = from
    /\ CanDown(mutex)
    /\ mutex' = 0
    /\ pc' = [pc EXCEPT ![a] = to]
    /\ UNCHANGED <<cfg, launch, shared, playersWaitReferee, playersWaitEnd, team, refPc, log, lastRec>>

arriveBodySleepsInCS(a) ==
    /\ pc[a] = "arrive_cs"
    /\ UNCHANGED <<cfg, launch, refereeStat, playersFree, goaliesFree, teamId,
                   playersWaitReferee, playersWaitEnd, team, refPc>>
    /\ SetStat(a, "ARRIVING")
    /\ saveState(a, "ARRIVING")
    /\ mutex' = mutex
    /\ pc' = [pc EXCEPT ![a] = "arrive_sleep"]

(* arrive: slot = ARRIVING; saveState; semUp (mutex) *)
arriveBody(a) ==
    /\ pc[a] = "arrive_cs"
    /\ UNCHANGED <<cfg, launch, refereeStat, playersFree, goaliesFree, teamId,
                   playersWaitReferee, playersWaitEnd, team, refPc>>
    /\ SetStat(a, "ARRIVING")
    /\ saveState(a, "ARRIVING")
    /\ mutex' = 1
    /\ pc' = [pc EXCEPT ![a] = "arrive_sleep"]

(* arrive: usleep returns; the process is then at constituteTeam's semDown *)
arriveSleep(a) ==
    /\ pc[a] = "arrive_sleep"
    /\ pc' = [pc EXCEPT ![a] = "ct"]
    /\ UNCHANGED <<cfg, launch, shared, sems, team, refPc, log, lastRec>>

(* the test of playerConstituteTeam / goalieConstituteTeam *)
FormationPredicateEither ==
    playersFree >= NUMTEAMPLAYERS \/ goaliesFree >= NUMTEAMGOALIES
FormationPredicate ==
    playersFree >= NUMTEAMPLAYERS /\ goaliesFree >= NUMTEAMGOALIES

(* the counters after the leader branch; team = sh->fSt.teamId++ *)
LeaderPlayersFreeByOne == playersFree - 1
LeaderPlayersFree == playersFree - NUMTEAMPLAYERS
LeaderGoaliesFree == goaliesFree - NUMTEAMGOALIES
LeaderTeamId == teamId + 1

(* where main goes after constituteTeam returned t: waitReferee, whose     *)
(* first statement is the semDown of playersWaitReferee, or the exit       *)
AfterConstituteNoWait(t) == IF t # 0 THEN "wr" ELSE "done"
AfterConstitute(t) == IF t # 0 THEN "wr_sem" ELSE "done"

(* where waitReferee's return leads: playUntilEnd, whose first statement   *)
(* is the semDown of playersWaitEnd                                        *)
AfterWaitRefereeNoWait == "pe"
AfterWaitReferee == "pe_sem"

(* constituteTeam's critical section and the return to main *)
constituteTeamBody(a) ==
    /\ pc[a] = "ct_cs"
    /\ UNCHANGED <<cfg, launch, refereeStat, playersWaitReferee, playersWaitEnd, refPc>>
    /\ IF FormationPredicate
          THEN /\ team' = [team EXCEPT ![a] = teamId]
               /\ teamId' = LeaderTeamId
               /\ playersFree' = LeaderPlayersFree
               /\ goaliesFree' = LeaderGoaliesFree
               /\ SetStat(a, "FORMING_TEAM")
               /\ saveState(a, "FORMING_TEAM")
          ELSE /\ UNCHANGED <<team, teamId, playersFree, goaliesFree>>
               /\ SetStat(a, "LATE")
               /\ saveState(a, "LATE")
    /\ mutex' = 1
    /\ pc' = [pc EXCEPT ![a] = AfterConstitute(team'[a])]

(* waitReferee: semDown (semgid, sh->playersWaitReferee) *)
waitRefereeDown(a) ==
    /\ pc[a] = "wr_sem"
    /\ CanDown(playersWaitReferee)
    /\ playersWaitReferee' = playersWaitReferee - 1
    /\ pc' = [pc EXCEPT ![a] = "wr"]
    /\ UNCHANGED <<cfg, launch, shared, mutex, playersWaitEnd, team, refPc, log, lastRec>>

(* waitReferee: slot = PLAYING; saveState; semUp (mutex) *)
waitRefereeBody(a) ==
    /\ pc[a] = "wr_cs"
    /\ UNCHANGED <<cfg, launch, refereeStat, playersFree, goaliesFree, teamId,
                   playersWaitReferee, playersWaitEnd, team, refPc>>
    /\ SetStat(a, "PLAYING")
    /\ saveState(a, "PLAYING")
    /\ mutex' = 1
    /\ pc' = [pc EXCEPT ![a] = AfterWaitReferee]

(* playUntilEnd: semDown (semgid, sh->playersWaitEnd) *)
playUntilEndDown(a) ==
    /\ pc[a] = "pe_sem"
    /\ CanDown(playersWaitEnd)
    /\ playersWaitEnd' = playersWaitEnd - 1
    /\ pc' = [pc EXCEPT ![a] = "pe"]
    /\ UNCHANGED <<cfg, launch, shared, mutex, playersWaitReferee, team, refPc, log, lastRec>>

(* playUntilEnd: slot = ENDING_GAME; saveState; semUp (mutex); main then   *)
(* detaches the region and returns.                                        *)
playUntilEndBody(a) ==
    /\ pc[a] = "pe_cs"
    /\ UNCHANGED <<cfg, launch, refereeStat, playersFree, goaliesFree, teamId,
                   playersWaitReferee, playersWaitEnd, team, refPc>>
    /\ SetStat(a, "ENDING_GAME")
    /\ saveState(a, "ENDING_GAME")
    /\ mutex' = 1
    /\ pc' = [pc EXCEPT ![a] = "done"]

ActorStep(a) ==
    \/ EnterCS(a, "arrive", "arrive_cs")
    \/ arriveBody(a)
    \/ arriveSleep(a)
    \/ EnterCS(a, "ct", "ct_cs")
    \/ constituteTeamBody(a)
    \/ waitRefereeDown(a)
    \/ EnterCS(a, "wr", "wr_cs")
    \/ waitRefereeBody(a)
    \/ playUntilEndDown(a)
    \/ EnterCS(a, "pe", "pe_cs")
    \/ playUntilEndBody(a)

Player == \E a \in Players : ActorStep(a)
Goalie == \E a \in Goalies : ActorStep(a)

----------------------------------------------------------------------------
(* Referee operations *)

RefEnterCS(from, to) ==
    /\ refPc = from
    /\ CanDown(mutex)
    /\ mutex' = 0
    /\ refPc' = to
    /\ UNCHANGED <<cfg, launch, shared, playersWaitReferee, playersWaitEnd, pc, team, log, lastRec>>

(* refereeStat = s; saveState; semUp (mutex) *)
RefPublish(from, s, to) ==
    /\ refPc = from
    /\ UNCHANGED <<cfg, launch, playerStat, goalieStat, playersFree, goaliesFree, teamId,
                   playersWaitReferee, playersWaitEnd, pc, team>>
    /\ refereeStat' = s
    /\ saveState(Referee, s)
    /\ mutex' = 1
    /\ refPc' = to

(* a usleep of the referee returns *)
RefSleep(from, to) ==
    /\ refPc = from
    /\ refPc' = to
    /\ UNCHANGED <<cfg, launch, shared, sems, pc, team, log, lastRec>>

(* waitForTeams: while (sh->fSt.teamId < 3) usleep (1000);  the test reads *)
(* teamId without the mutex.                                               *)
TeamsFormedOffByOne == teamId > 3
TeamsFormed == teamId >= 3

waitForTeamsPoll ==
    /\ refPc = "wft_poll"
    /\ refPc' = IF TeamsFormed THEN "sg" ELSE "wft_sleep"
    /\ UNCHANGED <<cfg, launch, shared, sems, pc, team, log, lastRec>>

(* startGame: the single semUp (semgid, sh->playersWaitReferee) *)
startGameUp ==
    /\ refPc = "sg_up"
    /\ playersWaitReferee' = playersWaitReferee + 1
    /\ refPc' = "play"
    /\ UNCHANGED <<cfg, launch, shared, mutex, playersWaitEnd, pc, team, log, lastRec>>

(* endGame: the single semUp (semgid, sh->playersWaitEnd); main then       *)
(* detaches the region and returns.                                        *)
endGameUp ==
    /\ refPc = "eg_up"
    /\ playersWaitEnd' = playersWaitEnd + 1
    /\ refPc' = "done"
    /\ UNCHANGED <<cfg, launch, shared, mutex, playersWaitReferee, pc, team, log, lastRec>>

RefereeStep ==
    \/ RefEnterCS("arrive", "arrive_cs")
    \/ RefPublish("arrive_cs", "ARRIVING_R", "arrive_sleep")
    \/ RefSleep("arrive_sleep", "wft")
    \/ RefEnterCS("wft", "wft_cs")
    \/ RefPublish("wft_cs", "WAITING_TEAMS", "wft_poll")
    \/ waitForTeamsPoll
    \/ RefSleep("wft_sleep", "wft_poll")
    \/ RefEnterCS("sg", "sg_cs")
    \/ RefPublish("sg_cs", "STARTING_GAME", "sg_up")
    \/ startGameUp
    \/ RefEnterCS("play", "play_cs")
    \/ RefPublish("play_cs", "REFEREEING", "play_sleep")
    \/ RefSleep("play_sleep", "eg")
    \/ RefEnterCS("eg", "eg_cs")
    \/ RefPublish("eg_cs", "ENDING_GAME", "eg_up")
    \/ endGameUp

----------------------------------------------------------------------------
Next == Player \/ Goalie \/ RefereeStep

Spec == Init /\ [][Next]_vars

(* A population large enough for the formation predicate to hold a third   *)
(* time.                                                                   *)
InitSurplus == InitFor([np |-> 3, ng |-> 3, ppt |-> 1, gpt |-> 1])
SpecSurplus == InitSurplus /\ [][Next]_vars

(* Fair scheduling: every process that can take a step eventually takes    *)
(* one.  A process blocked in semDown cannot take a step.                  *)
AllActors ==
    {<<"PL", i>> : i \in 0 .. (MaxPlayers - 1)} \cup {<<"GL", i>> : i \in 0 .. (MaxGoalies - 1)}
Proc(a) == a \in Actors /\ ActorStep(a)
Fairness == WF_vars(RefereeStep) /\ \A a \in AllActors : WF_vars(Proc(a))
FairSpec == Spec /\ Fairness

----------------------------------------------------------------------------
(* Vocabulary of the properties *)

(* w has a record in the log that shows it publishing s *)
Published(w, s) == \E i \in 1 .. Len(log[w]) : log[w][i] = s

(* this step appends to the log a record in which w publishes s *)
Appends(w, s) == log'[w] = Append(log[w], s)

(* a's constituteTeam has returned *)
Returned(a) == pc[a] \in {"wr_sem", "wr", "wr_cs", "pe_sem", "pe", "pe_cs", "done"}
Teammate(a) == Returned(a) /\ team[a] # 0
IsLate(a) == Returned(a) /\ team[a] = 0

(* no process can take a step: every one has exited or is blocked *)
Stopped == ~ENABLED Next
AllExited == refPc = "done" /\ \A a \in Actors : pc[a] = "done"
AllReturned == \A a \in Actors : Returned(a)

TeamStates == {"FORMING_TEAM", "WAITING_TEAM"}
LatePlayers == {p \in Players : StatOf(p) = "LATE"}
LateGoalies == {g \in Goalies : StatOf(g) = "LATE"}

----------------------------------------------------------------------------
(* C1: in a feasible configuration, under fair scheduling, every player or *)
(* goalie whose constituteTeam returned a non-zero team eventually has     *)
(* published FORMING_TEAM or WAITING_TEAM, then PLAYING, then ENDING_GAME.  *)
TeammateTraceComplete(a) ==
    a \in Actors /\ \E i, j, k \in 1 .. Len(log[a]) :
        /\ i < j /\ j < k
        /\ log[a][i] \in TeamStates
        /\ log[a][j] = "PLAYING"
        /\ log[a][k] = "ENDING_GAME"

C1_TeammatePlaysAndEnds ==
    \A a \in AllActors :
        []((Feasible /\ a \in Actors /\ Teammate(a)) => <>TeammateTraceComplete(a))

(* C2: in the final state of a run of a feasible configuration exactly     *)
(* NUM_PLAYERS - 2*PLAYERS_PER_TEAM players are LATE and the others are in  *)
(* ENDING_GAME, and likewise for the goalies.                              *)
C2_FinalLateCounts ==
    (Feasible /\ Stopped) =>
        /\ Cardinality(LatePlayers) = NUMPLAYERS - 2 * NUMTEAMPLAYERS
        /\ \A p \in Players \ LatePlayers : StatOf(p) = "ENDING_GAME"
        /\ Cardinality(LateGoalies) = NUMGOALIES - 2 * NUMTEAMGOALIES
        /\ \A g \in Goalies \ LateGoalies : StatOf(g) = "ENDING_GAME"

(* C3: once every constituteTeam has returned, each team id in {1, 2} has  *)
(* been returned to exactly PLAYERS_PER_TEAM players and exactly           *)
(* GOALIES_PER_TEAM goalies.                                               *)
C3_TeamSizes ==
    (Feasible /\ AllReturned) =>
        \A t \in 1 .. NUM_TEAMS :
            /\ Cardinality({p \in Players : team[p] = t}) = NUMTEAMPLAYERS
            /\ Cardinality({g \in Goalies : team[g] = t}) = NUMTEAMGOALIES

(* C4: in a feasible configuration a run stops only in the final state:    *)
(* every process has exited, every player and goalie is LATE or in         *)
(* ENDING_GAME, the referee is in ENDING_GAME and nextTeamId = 3; no        *)
(* process that has not exited is left blocked on a semaphore.             *)
FinalState ==
    /\ AllExited
    /\ \A a \in Actors : StatOf(a) \in {"LATE", "ENDING_GAME"}
    /\ refereeStat = "ENDING_GAME"
    /\ teamId = NUM_TEAMS + 1

C4_StopsOnlyInFinalState == Feasible => (FinalState \/ ENABLED Next)

(* C5: whenever the mutex is free, playersFree + PLAYERS_PER_TEAM *        *)
(* (nextTeamId - 1) = NUM_PLAYERS and goaliesFree + GOALIES_PER_TEAM *      *)
(* (nextTeamId - 1) = NUM_GOALIES, whichever role the leaders had.          *)
C5_FreeCountersBalance ==
    mutex = 1 =>
        /\ playersFree + NUMTEAMPLAYERS * (teamId - 1) = NUMPLAYERS
        /\ goaliesFree + NUMTEAMGOALIES * (teamId - 1) = NUMGOALIES

(* a team reserved by a player, another one by a goalie, the mutex free *)
C5_Witness ==
    /\ mutex = 1
    /\ teamId = 3
    /\ \E p \in Players : Teammate(p)
    /\ \E g \in Goalies : Teammate(g)

(* a team reserved where a team takes two players *)
C5_WitnessTwoPerTeam == mutex = 1 /\ teamId = 2 /\ NUMTEAMPLAYERS = 2

(* C6: nextTeamId is 1, 2 or 3 in every reachable state, also when the     *)
(* population leaves enough free players and goalies for a third team.     *)
C6_NextTeamIdRange == teamId \in 1 .. (NUM_TEAMS + 1)

(* C7: the referee's STARTING_GAME record is in the log at every step that *)
(* appends a record in which a player or goalie publishes PLAYING.         *)
C7_StartBeforePlaying ==
    [][\A a \in Actors :
          Appends(a, "PLAYING") => Published(Referee, "STARTING_GAME")]_vars

C7_Witness == \E a \in Actors : Published(a, "PLAYING")

(* C8: the referee's ENDING_GAME record is in the log at every step that   *)
(* appends a record in which a player or goalie publishes ENDING_GAME.     *)
C8_RefereeEndsFirst ==
    [][\A a \in Actors :
          Appends(a, "ENDING_GAME") => Published(Referee, "ENDING_GAME")]_vars

C8_Witness == \E a \in Actors : Published(a, "ENDING_GAME")

(* C9: the states the referee publishes are, in this order and once each,  *)
(* ARRIVING_R, WAITING_TEAMS, STARTING_GAME, REFEREEING, ENDING_GAME; in a  *)
(* feasible configuration under fair scheduling the last one is eventually *)
(* published.                                                              *)
RefereeTrace ==
    <<"ARRIVING_R", "WAITING_TEAMS", "STARTING_GAME", "REFEREEING", "ENDING_GAME">>

IsPrefix(s, t) == Len(s) <= Len(t) /\ \A i \in 1 .. Len(s) : s[i] = t[i]

C9_RefereeTrace ==
    /\ [](IsPrefix(log[Referee], RefereeTrace))
    /\ [](Feasible => <>(log[Referee] = RefereeTrace))

C9_Witness == Feasible /\ log[Referee] = RefereeTrace

(* C10 is about the records in which a member of a team other than its     *)
(* leader publishes WAITING_TEAM.  No operation of the three processes     *)
(* writes WAITING_TEAM, so no such record is ever appended:                *)
NoWaitingTeamRecord == \A a \in Actors : ~Published(a, "WAITING_TEAM")

(* C11: in a configuration that has the players of two teams but the       *)
(* goalies of one only (8 players and 1 goalie with 4 + 1 per team; here   *)
(* every configuration that is not feasible), no STARTING_GAME record is   *)
(* ever logged, the processes never have all exited, and the referee never *)
(* leaves waitForTeams.                                                    *)
RefereeInOrBeforeWaitForTeams ==
    refPc \in {"arrive", "arrive_cs", "arrive_sleep", "wft", "wft_cs", "wft_poll", "wft_sleep"}

C11_InfeasibleNeverStarts ==
    ~Feasible =>
        /\ ~Published(Referee, "STARTING_GAME")
        /\ ~AllExited
        /\ RefereeInOrBeforeWaitForTeams

(* players for two teams, goalies for one: every player and goalie is      *)
(* through constituteTeam and the referee is polling                       *)
C11_Witness ==
    /\ NUMPLAYERS = 2 * NUMTEAMPLAYERS
    /\ NUMGOALIES = NUMTEAMGOALIES
    /\ AllReturned
    /\ refPc = "wft_sleep"

(* C12 compares the final states of different runs of one configuration:   *)
(* the numbers of players and goalies that are teammates and that are      *)
(* LATE.  The two predicates below are final states of the configuration   *)
(* with 2 players, 2 goalies and 1 + 1 per team that differ in them.       *)
TeammatePlayers == {p \in Players : Teammate(p)}
TeammateGoalies == {g \in Goalies : Teammate(g)}
MinimalConfig == cfg = [np |-> 2, ng |-> 2, ppt |-> 1, gpt |-> 1]

FinalWithTwoTeammatePlayers ==
    MinimalConfig /\ Stopped /\ Cardinality(TeammatePlayers) = 2 /\ Cardinality(LateGoalies) = 2

FinalWithTwoTeammateGoalies ==
    MinimalConfig /\ Stopped /\ Cardinality(TeammateGoalies) = 2 /\ Cardinality(LatePlayers) = 2


(* C12: every run of a configuration ends with the same numbers of         *)
(* teammate and LATE players and goalies.  FinalWithTwoTeammatePlayers is  *)
(* the end of one run of the minimal configuration, so every other run of  *)
(* it has to end with the same numbers: 2 teammate players, 0 LATE         *)
(* players, 0 teammate goalies, 2 LATE goalies.                            *)
C12_SameCountsInEveryRun ==
    (MinimalConfig /\ Stopped) =>
        /\ Cardinality(TeammatePlayers) = 2
        /\ Cardinality(LatePlayers) = 0
        /\ Cardinality(TeammateGoalies) = 0
        /\ Cardinality(LateGoalies) = 2


(* C13: at most one process is inside a critical section at any time, and  *)
(* every step that writes a state slot, playersFree, goaliesFree or        *)
(* nextTeamId, or that calls saveState, is a step of the process that      *)
(* holds the mutex.                                                        *)
InCSCount == Cardinality({a \in Actors : InCS(a)}) + (IF RefInCS THEN 1 ELSE 0)

MutualExclusion == InCSCount <= 1 /\ (mutex = 0 <=> InCSCount = 1)

WriterHoldsMutex ==
    (shared' # shared \/ log' # log) =>
        /\ mutex = 0
        /\ \/ \E a \in Actors : InCS(a) /\ pc'[a] # pc[a]
           \/ RefInCS /\ refPc' # refPc

C13_WritesUnderMutex == [](MutualExclusion) /\ [][WriterHoldsMutex]_vars

(* a process inside its critical section while another one and the referee *)
(* are at a semDown of the mutex                                           *)
C13_Witness ==
    /\ \E a, b \in Actors : InCS(a) /\ pc[a] = "ct_cs" /\ pc[b] \in {"arrive", "ct", "wr", "pe"}
    /\ refPc \in {"arrive", "wft", "sg", "play", "eg"}


(***************************************************************************)
(* The number of assignments to its own slot that a process has made,      *)
(* read off its position in its life cycle.                                *)
(***************************************************************************)
TransitionsDone(a) ==
    CASE pc[a] \in {"arrive", "arrive_cs"}        -> 0
      [] pc[a] \in {"arrive_sleep", "ct", "ct_cs"} -> 1
      [] pc[a] \in {"wr_sem", "wr", "wr_cs"}       -> 2
      [] pc[a] \in {"pe_sem", "pe", "pe_cs"}       -> 3
      [] pc[a] = "done" -> IF team[a] = 0 THEN 2 ELSE 4

RefereeTransitionsDone ==
    CASE refPc \in {"arrive", "arrive_cs"}                  -> 0
      [] refPc \in {"arrive_sleep", "wft", "wft_cs"}        -> 1
      [] refPc \in {"wft_poll", "wft_sleep", "sg", "sg_cs"} -> 2
      [] refPc \in {"sg_up", "play", "play_cs"}             -> 3
      [] refPc \in {"play_sleep", "eg", "eg_cs"}            -> 4
      [] refPc \in {"eg_up", "done"}                        -> 5

RecordsOf(w) == Len(log[w])

LogMatchesRegion ==
    mutex = 1 =>
        /\ \A a \in Actors : RecordsOf(a) = TransitionsDone(a)
        /\ RecordsOf(Referee) = RefereeTransitionsDone
        /\ (\E w \in Actors \cup {Referee} : RecordsOf(w) > 0) => lastRec = shared

OneRecordPerWrite ==
    (shared' # shared \/ (mutex' = 1 /\ mutex = 0)) =>
        /\ \E w \in Actors \cup {Referee} :
              /\ Len(log'[w]) = Len(log[w]) + 1
              /\ \A v \in (Actors \cup {Referee}) \ {w} : log'[v] = log[v]
        /\ lastRec' = shared'

\* C14: a change of a slot or of a counter is followed, before the mutex is
\* released, by exactly one saveState; whenever the mutex is free the last
\* record of the log shows the region as it is, and the log holds as many
\* records as slot assignments have been made.
C14_LogInStepWithRegion == [](LogMatchesRegion) /\ [][OneRecordPerWrite]_vars

C14_Witness ==
    /\ mutex = 1
    /\ RecordsOf(Referee) = 5
    /\ \E a \in Actors : IsLate(a)
    /\ \E a \in Actors : Teammate(a) /\ Published(a, "PLAYING")
    /\ lastRec = shared


(***************************************************************************)
(* The moves of a player's or goalie's slot that the life cycle allows.    *)
(***************************************************************************)
SlotMoveAllowed(old, new) ==
    \/ new = old
    \/ old = "ARRIVING" /\ new \in {"LATE", "FORMING_TEAM", "WAITING_TEAM"}
    \/ old \in {"FORMING_TEAM", "WAITING_TEAM"} /\ new = "PLAYING"
    \/ old = "PLAYING" /\ new = "ENDING_GAME"

SlotsMoveForward == \A a \in Actors : SlotMoveAllowed(StatOf(a), StatOf(a)')

LateIsTerminal == \A a \in Actors : StatOf(a) = "LATE" => StatOf(a)' = "LATE"

PlayingOnlyInTeamOneOrTwo ==
    \A a \in Actors :
        StatOf(a) \in {"PLAYING", "ENDING_GAME"} => team[a] \in 1..NUM_TEAMS

\* C15: a player's or goalie's slot only moves along ARRIVING ->
\* {LATE | FORMING_TEAM | WAITING_TEAM} -> PLAYING -> ENDING_GAME, a slot in
\* LATE never changes again, and a slot is in PLAYING or ENDING_GAME only if
\* its owner's constituteTeam returned team 1 or 2.
C15_SlotLifeCycle ==
    /\ [](PlayingOnlyInTeamOneOrTwo)
    /\ [][SlotsMoveForward /\ LateIsTerminal]_vars

C15_ThirdTeamPlays ==
    \E a \in Actors : team[a] = 3 /\ StatOf(a) = "PLAYING"


----------------------------------------------------------------------------
(***************************************************************************)
(* main's validation of the command line, for a player or goalie process   *)
(* started by hand with any argv[1].                                        *)
(***************************************************************************)

(* unsigned int is 32 bits wide; a value is kept as its two 16-bit halves. *)
HalfWord == 65536

(* (unsigned int) v for the long v that strtol returned.                   *)
ToUnsignedInt(v) == <<(v \div HalfWord) % HalfWord, v % HalfWord>>

(* The unsigned value assigned to `int n`: values from 2^31 on wrap to the  *)
(* negative numbers.                                                       *)
ToInt(u) ==
    (IF u[1] >= HalfWord \div 2 THEN u[1] - HalfWord ELSE u[1]) * HalfWord + u[2]

(* strtol (argv[1], &tinp, 0): the value read, and whether *tinp is '\0'.  *)
strtolValue(arg) == IF arg.numeric THEN arg.value ELSE 0
strtolAtEnd(arg) == arg.numeric

Population(role) == IF role = "PL" THEN NUMPLAYERS ELSE NUMGOALIES

(* The test of line 79 with NUMPLAYERS (NUMGOALIES) compared as the int    *)
(* constant it is: n >= NUMPLAYERS is a comparison of ints.                *)
IdRejected(role, arg, n) == ~strtolAtEnd(arg) \/ n >= Population(role)

LaunchArgs ==
    [numeric : {TRUE}, value : (0 - MaxPlayers - 1) .. (MaxPlayers + 1)]
        \cup {[numeric |-> FALSE, value |-> 0]}

InitLaunch ==
    /\ \E c \in Configs : InitRegion(c)
    /\ \E r \in {"PL", "GL"}, ac \in {3, 4}, arg \in LaunchArgs :
          launch = [role |-> r, argc |-> ac, arg |-> arg, st |-> "start", n |-> 0]

(* main up to the end of the validation: EXIT_FAILURE or n accepted.       *)
mainValidate ==
    /\ launch.st = "start"
    /\ LET n == ToInt(ToUnsignedInt(strtolValue(launch.arg)))
       IN  launch' = IF launch.argc # 4
                        THEN [launch EXCEPT !.st = "failure"]
                     ELSE IF IdRejected(launch.role, launch.arg, n)
                        THEN [launch EXCEPT !.st = "failure", !.n = n]
                     ELSE [launch EXCEPT !.st = "accepted", !.n = n]
    /\ UNCHANGED <<cfg, shared, sems, pc, team, refPc, log, lastRec>>

(* semConnect, shmemConnect, shmemAttach: the region is mapped.            *)
mainAttach ==
    /\ launch.st = "accepted"
    /\ launch' = [launch EXCEPT !.st = "attached"]
    /\ UNCHANGED <<cfg, shared, sems, pc, team, refPc, log, lastRec>>

(* arrive (n): the slot of index n is written under the mutex.  With n     *)
(* outside the array the write is out of bounds: the process is killed or   *)
(* the write lands outside the slot of any process of this role.           *)
mainArrive ==
    /\ launch.st = "attached"
    /\ CanDown(mutex)
    /\ UNCHANGED <<cfg, refereeStat, playersFree, goaliesFree, teamId, sems,
                   pc, team, refPc>>
    /\ IF launch.n \in 0 .. (Population(launch.role) - 1)
          THEN /\ SetStat(<<launch.role, launch.n>>, "ARRIVING")
               /\ saveState(<<launch.role, launch.n>>, "ARRIVING")
               /\ launch' = [launch EXCEPT !.st = "arrived"]
          ELSE /\ \E outcome \in {"killed", "wrote_outside"} :
                     launch' = [launch EXCEPT !.st = outcome]
               /\ UNCHANGED <<playerStat, goalieStat, log, lastRec>>

NextLaunch == mainValidate \/ mainAttach \/ mainArrive

SpecLaunch == InitLaunch /\ [][NextLaunch]_vars

IdInRange ==
    /\ launch.arg.numeric
    /\ launch.arg.value \in 0 .. (Population(launch.role) - 1)

\* C16: a player or goalie process started with an id outside
\* 0..NUM_PLAYERS-1 (0..NUM_GOALIES-1), a negative id included, exits with
\* a non-zero code and neither attaches to nor writes the shared region.
C16_BadIdNeverAttaches ==
    (launch.st # "none" /\ ~IdInRange) =>
        launch.st \in {"start", "accepted", "failure"}

C16_NegativeIdAttached ==
    /\ launch.argc = 4
    /\ launch.arg = [numeric |-> TRUE, value |-> -1]
    /\ launch.n = -1
    /\ launch.st = "attached"

(***************************************************************************)
(* The step in which actor a leaves the critical section of constituteTeam.*)
(***************************************************************************)
LeavesConstituteTeam(a) == pc[a] = "ct_cs" /\ pc'[a] # "ct_cs"

LateIffNoTeamLeft ==
    \A a \in Actors :
        LeavesConstituteTeam(a) =>
            /\ StatOf(a)' = "LATE" <=> teamId > NUM_TEAMS
            /\ (~FormationPredicate /\ teamId <= NUM_TEAMS)
                   => StatOf(a)' = "WAITING_TEAM"

\* C17: an actor in constituteTeam becomes LATE exactly when nextTeamId >
\* NUM_TEAMS at its entry to the critical section; when the formation
\* predicate is false and nextTeamId <= NUM_TEAMS it parks as a follower
\* (WAITING_TEAM) instead.
C17_LateOnlyWhenTeamsTaken == [][LateIffNoTeamLeft]_vars

C17_LateWhileTeamsLeft ==
    \E a \in Actors : IsLate(a) /\ teamId <= NUM_TEAMS


TeammatesPerGame == NUM_TEAMS * (NUMTEAMPLAYERS + NUMTEAMGOALIES)

BlockedInWaitReferee == {a \in Actors : pc[a] = "wr_sem"}
BlockedInPlayUntilEnd == {a \in Actors : pc[a] = "pe_sem"}

PostsOnePerTeammate ==
    /\ (refPc = "sg_up" /\ refPc' = "play")
          => playersWaitReferee' = playersWaitReferee + TeammatesPerGame
    /\ (refPc = "eg_up" /\ refPc' = "done")
          => playersWaitEnd' = playersWaitEnd + TeammatesPerGame

NoTeammateLeftBlocked ==
    (Stopped /\ refPc = "done") =>
        BlockedInWaitReferee = {} /\ BlockedInPlayUntilEnd = {}

\* C18: startGame posts exactly 2*(PLAYERS_PER_TEAM + GOALIES_PER_TEAM)
\* signals on the start condition and endGame the same number on the end
\* condition, so that once the referee is done no teammate is left blocked
\* in waitReferee or in playUntilEnd.
C18_OnePostPerTeammate ==
    /\ [][PostsOnePerTeammate]_vars
    /\ [](NoTeammateLeftBlocked)

C18_TeammateLeftBlocked ==
    /\ Feasible
    /\ Stopped
    /\ refPc = "done"
    /\ BlockedInWaitReferee # {}


EndAfterAllPlaying ==
    Appends(Referee, "ENDING_GAME") =>
        \A a \in Actors : Teammate(a) => Published(a, "PLAYING")

NoPlayingAfterEnd ==
    \A a \in Actors :
        Appends(a, "PLAYING") => ~Published(Referee, "ENDING_GAME")

\* C19: the referee publishes ENDING_GAME only after every teammate has
\* published PLAYING, and no teammate's PLAYING record comes after the
\* referee's ENDING_GAME record.
C19_EndOnlyAfterAllPlaying == [][EndAfterAllPlaying /\ NoPlayingAfterEnd]_vars

C19_EndWhileTeammateWaits ==
    /\ Feasible
    /\ Published(Referee, "ENDING_GAME")
    /\ \E a \in Actors : Teammate(a) /\ ~Published(a, "PLAYING")


RegisteredTeammates ==
    {a \in Actors : /\ Teammate(a)
                    /\ \/ Published(a, "FORMING_TEAM")
                       \/ Published(a, "WAITING_TEAM")}

StartsWithFullTeams ==
    Appends(Referee, "STARTING_GAME") =>
        Cardinality(RegisteredTeammates) = TeammatesPerGame

\* C20: when the referee publishes STARTING_GAME, exactly
\* 2*(PLAYERS_PER_TEAM + GOALIES_PER_TEAM) actors have already published
\* FORMING_TEAM or WAITING_TEAM and returned a non-zero team from
\* constituteTeam.
C20_StartsWithFullTeams == [][StartsWithFullTeams]_vars

C20_StartedWithFewerTeammates ==
    /\ Feasible
    /\ Published(Referee, "STARTING_GAME")
    /\ AllReturned
    /\ Cardinality(RegisteredTeammates) < TeammatesPerGame


(***************************************************************************)
(* The steps in which a process reads fields of the region: the body of a  *)
(* critical section (the formation test, saveState of the whole snapshot)  *)
(* and the referee's test of teamId in waitForTeams.                       *)
(***************************************************************************)
ActorReadsRegion(a) == InCS(a) /\ pc'[a] # pc[a]

RefereeReadsRegion ==
    /\ refPc \in {"arrive_cs", "wft_cs", "wft_poll", "sg_cs", "play_cs", "eg_cs"}
    /\ refPc' # refPc

ReaderHoldsMutex ==
    /\ \A a \in Actors : ActorReadsRegion(a) => mutex = 0
    /\ RefereeReadsRegion => (mutex = 0 /\ RefInCS)

\* C21: no process reads a field of the shared snapshot without holding the
\* mutex; in particular the referee tests nextTeamId in waitForTeams while
\* it holds the mutex.
C21_ReadsUnderMutex == [][ReaderHoldsMutex]_vars

C21_PollWhileLeaderWrites ==
    /\ refPc = "wft_poll"
    /\ \E a \in Actors : pc[a] = "ct_cs" /\ FormationPredicate

(***************************************************************************)
(* A process is suspended while it sleeps (usleep) or is blocked on the    *)
(* start or the end semaphore.                                             *)
(***************************************************************************)
Suspended(a) == pc[a] \in {"arrive_sleep", "wr_sem", "pe_sem"}
RefSuspended == refPc \in {"arrive_sleep", "wft_sleep", "play_sleep"}

(* a leaves (the referee leaves) its critical section in this step *)
LeavesCS(a) == InCS(a) /\ pc'[a] # pc[a]
RefLeavesCS == RefInCS /\ refPc' # refPc

ReleasesOnLeaving ==
    /\ \A a \in Actors : LeavesCS(a) => mutex' = 1
    /\ RefLeavesCS => mutex' = 1

SuspendedWithoutMutex ==
    /\ \A a \in Actors :
          (Suspended(a) /\ mutex = 0) =>
              \/ \E b \in Actors \ {a} : InCS(b)
              \/ RefInCS
    /\ (RefSuspended /\ mutex = 0) => \E b \in Actors : InCS(b)
    /\ (Stopped /\ (RefSuspended \/ \E a \in Actors : Suspended(a))) => mutex = 1

\* C22: no process holds the mutex while it is suspended: when a player,
\* a goalie or the referee sleeps or is blocked on the start or end
\* semaphore, the mutex is free or held by another process, and every
\* operation releases the mutex before it returns.
C22_NoMutexWhileSuspended ==
    /\ [](SuspendedWithoutMutex)
    /\ [][ReleasesOnLeaving]_vars

C22_Witness ==
    /\ \E a, b, c \in Actors :
          /\ pc[a] = "wr_sem"
          /\ pc[b] = "arrive_sleep"
          /\ InCS(c)
    /\ refPc = "wft_sleep"
    /\ mutex = 0


(***************************************************************************)
(* Frame of the operations: whose step changes which field of the region.  *)
(***************************************************************************)
StepOf(a) == pc'[a] # pc[a]
RefStep == refPc' # refPc

(* a's step is the leader branch of constituteTeam *)
LeaderStep(a) == pc[a] = "ct_cs" /\ StepOf(a) /\ team'[a] # 0

CountersChange ==
    playersFree' # playersFree \/ goaliesFree' # goaliesFree \/ teamId' # teamId

LeaderDeltas ==
    /\ playersFree' = playersFree - NUMTEAMPLAYERS
    /\ goaliesFree' = goaliesFree - NUMTEAMGOALIES
    /\ teamId' = teamId + 1

OwnSlotOnly ==
    /\ \A b \in Actors : StatOf(b)' # StatOf(b) => (StepOf(b) /\ ~RefStep)
    /\ refereeStat' # refereeStat =>
          (RefStep /\ \A b \in Actors : ~StepOf(b))

CountersOnlyByLeader ==
    /\ CountersChange => \E a \in Actors : LeaderStep(a)
    /\ \A a \in Actors : LeaderStep(a) => LeaderDeltas

\* C23: each operation writes only the slot of the process that runs it;
\* playersFree, goaliesFree and nextTeamId are changed only by the leader
\* branch of constituteTeam, by -PLAYERS_PER_TEAM, -GOALIES_PER_TEAM and +1.
C23_FrameOfOperations == [][OwnSlotOnly /\ CountersOnlyByLeader]_vars

C23_Witness ==
    /\ teamId = 3
    /\ \E a \in Actors : IsLate(a)
    /\ \E g \in Goalies : Published(g, "ENDING_GAME")
    /\ Published(Referee, "ENDING_GAME")

====
